---- MODULE Spec2Model ----
(***************************************************************************)
(* Asynchronous risk-job pipeline of contract-risk-mcp-foundry:            *)
(*   mcp-risk (job intake and status polling, apps/mcp-risk/src/main.py),  *)
(*   risk-worker (apps/risk-worker/src/worker.py) and the result consumer  *)
(*   of the agent orchestrator (apps/agent-orchestrator/src/orchestrator.py)*)
(* The RabbitMQ broker (aio_pika) and the MongoDB jobs collection are the  *)
(* shared media; uuid4 job ids are modelled as fresh (a counter).          *)
(***************************************************************************)
EXTENDS Integers, Sequences, FiniteSets, TLC

\* ---------------------------------------------------------------- bounds
MaxJobs == 2        \* submissions accepted by the intake in one behaviour
MaxForeign == 1     \* job messages put on risk.jobs by another producer
MaxClock == 1       \* datetime.utcnow() ranges over 0..MaxClock
MaxCrashes == 1     \* broker redeliveries after a lost worker connection
NumWorkers == 2     \* risk-worker processes consuming risk.jobs

\* ------------------------------------------------------ program constants
FX_VAR_THRESHOLD == 100000
IR_DV01_THRESHOLD == 50000
THRESHOLD_BREACH_AGENT == "ThresholdBreachAnalyst"
MARKET_SHOCK_AGENT == "MarketShockAnalyst"
\* volatilities are kept in hundredths: 15 is 0.15
VolatilityThreshold == 15
\* the pairs update_market_data writes, and all pairs the collection can hold
MARKET_CURRENCY_PAIRS == {"EURUSD"}
Pairs == {"EURUSD", "USDMXN"}
\* no document of that pair in the collection
NoQuote == -1
\* what random.uniform(0.07, 0.12) can give, and what a document can hold
FakeVolatilities == {7, 12}
Volatilities == {12, VolatilityThreshold, 18}
\* max_retries and the initial delay (seconds) of invoke_foundry_agent
max_retries == 5
BaseDelay == 2

JobIds == 1..MaxJobs
Workers == 1..NumWorkers
ContractIds == {"ctr-fx-001"}

\* Python None in a timestamp field, in a string field, in a dict field
NoTime == -1
NoneStr == "<None>"
Null == [none |-> TRUE]
\* no document / no dict entry under that job_id
NoDoc == [status |-> "absent"]
NoMsg == [kind |-> "none"]

\* values the pricing collaborator can return (around the thresholds)
VarValues == {FX_VAR_THRESHOLD, FX_VAR_THRESHOLD + 1}
Dv01Values == {IR_DV01_THRESHOLD, IR_DV01_THRESHOLD + 1}

RiskJobStatus == {"pending", "processing", "succeeded", "failed"}
Terminal == {"succeeded", "failed"}

VARIABLES
    mongodb_enabled,   \* mcp-risk: init_mongodb() succeeded
    worker_mongo,      \* risk-worker: jobs_collection is not None
    jobs_collection,   \* MongoDB risk_db.jobs: job_id -> document
    job_store,         \* mcp-risk in-memory fallback dict
    nextId,            \* next fresh uuid4-derived job id
    nForeign,          \* foreign messages published so far
    now,               \* datetime.utcnow()
    jobsQueue,         \* broker queue risk.jobs (ready messages)
    wpc, wmsg, wres, wstored,   \* per worker: position, unacked message, envelope, store update outcome
    orchUp,            \* queue risk.results.orchestrator declared and bound
    resultsQueue,      \* broker queue risk.results.orchestrator
    opc, omsg,         \* orchestrator consumer: position, message being handled
    invocations,       \* history: invoke_foundry_agent calls made per job id
    lastCall,          \* history: arguments of the last call handle_risk_result made
    ohandled,          \* history: the last message handle_risk_result returned for
    ipc, iattempt, idelay,     \* per invocation of invoke_foundry_agent: position, attempt, delay
    icalls, islept, iret,      \* per invocation: agent calls made, delays slept, returned dict
    published,         \* history: job ids whose message mcp-risk published
    acked,             \* history: job ids whose message a worker acknowledged
    crashes,           \* history: lost worker connections so far
    market_collection, \* MongoDB market_db.market_data: currency pair -> volatility
    shockCalls,        \* history: the invoke_foundry_agent calls detect_market_shock made
    awaiting           \* mcp-risk: job_data of tool calls suspended at await publish_job

vars == <<mongodb_enabled, worker_mongo, jobs_collection, job_store, nextId,
          nForeign, now, jobsQueue, wpc, wmsg, wres, wstored, orchUp,
          resultsQueue, opc, omsg, invocations, lastCall, ohandled, ipc, iattempt, idelay,
          icalls, islept, iret, published, acked, crashes,
          market_collection, shockCalls, awaiting>>

workerVars == <<wpc, wmsg, wres, wstored>>
marketVars == <<market_collection, shockCalls>>
intakeVars == <<awaiting>>
invVars == <<ipc, iattempt, idelay, icalls, islept, iret>>
orchVars == <<opc, omsg, invocations, lastCall, ohandled, invVars>>

\* what datetime.utcnow() can return: the clock never runs backwards
UtcNow == now..MaxClock

\* ------------------------------------------------------------ mcp-risk

\* the params dict of a job: run_fx_var's (confidence in percent: 0.99 is 99)
\* and run_ir_dv01's
FxVarParams(horizon_days, confidence_pct, simulations) ==
    [horizon_days |-> horizon_days, confidence_pct |-> confidence_pct, sims |-> simulations]

IrDv01Params(shift_bps) == [shift_bps |-> shift_bps]

\* the defaults of the two tools
DefaultFxVarParams == FxVarParams(1, 99, 20000)
DefaultIrDv01Params == IrDv01Params(1)

\* datetime.utcnow().date(): the clock counts TicksPerDay ticks a day
TicksPerDay == 2
Date(t) == t \div TicksPerDay

\* f"{contract_id}|{job_type}|{datetime.utcnow().date()}"
IdempotencyKey(contract_id, job_type, t) ==
    [contract_id |-> contract_id, job_type |-> job_type, date |-> Date(t)]

\* job_data_with_meta written by run_fx_var / run_ir_dv01
NewRecord(job_id, job_type, contract_id, params, t) ==
    [job_id |-> job_id,
     status |-> "pending",
     submitted_at |-> t,
     job_data |-> [job_id |-> job_id, job_type |-> job_type, contract_id |-> contract_id,
                   params |-> params,
                   idempotency_key |-> IdempotencyKey(contract_id, job_type, t)],
     result |-> Null,
     error |-> NoneStr,
     completed_at |-> NoTime]

\* the message body publish_job puts on risk.jobs
JobMessage(job_id, job_type, contract_id, params, t) ==
    [kind |-> "job", job_id |-> job_id, job_type |-> job_type, contract_id |-> contract_id,
     params |-> params, idempotency_key |-> IdempotencyKey(contract_id, job_type, t)]

\* variant: a submission whose idempotency_key a stored job already has is
\* dropped after its job_id was drawn
Submit_Dedup(job_type, contract_id, params, t, insertFails, publishFails) ==
    /\ nextId <= MaxJobs
    /\ insertFails => mongodb_enabled
    /\ t \in UtcNow
    /\ now' = t
    /\ LET job_id == nextId
           rec == NewRecord(job_id, job_type, contract_id, params, t)
           dup == \E k \in JobIds :
                     \/ /\ jobs_collection[k] # NoDoc
                        /\ jobs_collection[k].job_data.idempotency_key = rec.job_data.idempotency_key
                     \/ /\ job_store[k] # NoDoc
                        /\ job_store[k].job_data.idempotency_key = rec.job_data.idempotency_key
       IN /\ nextId' = nextId + 1
          /\ IF dup
                THEN UNCHANGED <<jobs_collection, job_store>>
                ELSE IF mongodb_enabled /\ ~insertFails
                THEN /\ jobs_collection' = [jobs_collection EXCEPT ![job_id] = rec]
                     /\ job_store' = job_store
                ELSE /\ job_store' = [job_store EXCEPT ![job_id] = rec]
                     /\ jobs_collection' = jobs_collection
          /\ IF publishFails \/ dup
                THEN /\ jobsQueue' = jobsQueue
                     /\ published' = published
                ELSE /\ jobsQueue' = Append(jobsQueue, JobMessage(job_id, job_type, contract_id, params, t))
                     /\ published' = published \cup {job_id}
    /\ UNCHANGED <<intakeVars, marketVars, mongodb_enabled, worker_mongo, nForeign, workerVars,
                   orchUp, resultsQueue, orchVars, acked, crashes>>

\* body shared by run_fx_var and run_ir_dv01: store the pending record
\* (MongoDB, in-memory on PyMongoError or when MongoDB is off), then publish;
\* an exception of publish_job propagates to the caller, the record stays.
Submit(job_type, contract_id, params, t, insertFails, publishFails) ==
    /\ nextId <= MaxJobs
    /\ insertFails => mongodb_enabled
    /\ t \in UtcNow
    /\ now' = t
    /\ LET job_id == nextId
           rec == NewRecord(job_id, job_type, contract_id, params, t)
       IN /\ nextId' = nextId + 1
          /\ IF mongodb_enabled /\ ~insertFails
                THEN /\ jobs_collection' = [jobs_collection EXCEPT ![job_id] = rec]
                     /\ job_store' = job_store
                ELSE /\ job_store' = [job_store EXCEPT ![job_id] = rec]
                     /\ jobs_collection' = jobs_collection
          /\ IF publishFails
                THEN /\ jobsQueue' = jobsQueue
                     /\ published' = published
                ELSE /\ jobsQueue' = Append(jobsQueue, JobMessage(job_id, job_type, contract_id, params, t))
                     /\ published' = published \cup {job_id}
    /\ UNCHANGED <<intakeVars, marketVars, mongodb_enabled, worker_mongo, nForeign, workerVars,
                   orchUp, resultsQueue, orchVars, acked, crashes>>

\* variant: the record is written only after publish_job returned
StoreRecord_AfterPublish(job_type, contract_id, params, t, insertFails) ==
    /\ nextId <= MaxJobs
    /\ insertFails => mongodb_enabled
    /\ t \in UtcNow
    /\ now' = t
    /\ nextId' = nextId + 1
    /\ awaiting' = awaiting \cup {JobMessage(nextId, job_type, contract_id, params, t)}
    /\ UNCHANGED <<jobs_collection, job_store, jobsQueue, published>>
    /\ UNCHANGED <<marketVars, mongodb_enabled, worker_mongo, nForeign, workerVars,
                   orchUp, resultsQueue, orchVars, acked, crashes>>

\* run_fx_var / run_ir_dv01 up to their await: the pending record is written
\* (MongoDB, in-memory on PyMongoError or when MongoDB is off) and the call is
\* suspended at await publish_job(job_data)
StoreRecord(job_type, contract_id, params, t, insertFails) ==
    /\ nextId <= MaxJobs
    /\ insertFails => mongodb_enabled
    /\ t \in UtcNow
    /\ now' = t
    /\ LET job_id == nextId
           rec == NewRecord(job_id, job_type, contract_id, params, t)
       IN /\ nextId' = nextId + 1
          /\ IF mongodb_enabled /\ ~insertFails
                THEN /\ jobs_collection' = [jobs_collection EXCEPT ![job_id] = rec]
                     /\ job_store' = job_store
                ELSE /\ job_store' = [job_store EXCEPT ![job_id] = rec]
                     /\ jobs_collection' = jobs_collection
          /\ awaiting' = awaiting \cup {JobMessage(job_id, job_type, contract_id, params, t)}
    /\ UNCHANGED <<jobsQueue, published>>
    /\ UNCHANGED <<marketVars, mongodb_enabled, worker_mongo, nForeign, workerVars,
                   orchUp, resultsQueue, orchVars, acked, crashes>>

\* publish_job(job_data) of a suspended call: exchange.publish with routing
\* key risk.job, or an exception that ends the tool call
publish_job(job_data, publishFails) ==
    /\ job_data \in awaiting
    /\ awaiting' = awaiting \ {job_data}
    /\ IF publishFails
          THEN /\ jobsQueue' = jobsQueue
               /\ published' = published
          ELSE /\ jobsQueue' = Append(jobsQueue, job_data)
               /\ published' = published \cup {job_data.job_id}
    /\ UNCHANGED <<marketVars, mongodb_enabled, worker_mongo, jobs_collection, job_store,
                   nextId, nForeign, now, workerVars, orchUp, resultsQueue, orchVars,
                   acked, crashes>>

\* no argument is checked: whatever horizon_days, confidence and simulations
\* are, the record is written and the message published
run_fx_var(contract_id, params, t, insertFails, publishFails) ==
    Submit("fx_var", contract_id, params, t, insertFails, publishFails)

run_ir_dv01(contract_id, params, t, insertFails, publishFails) ==
    Submit("ir_dv01", contract_id, params, t, insertFails, publishFails)

\* job summaries list_jobs builds from the documents of one store
Summaries(store, status) ==
    {[job_id |-> store[j].job_id,
      status |-> store[j].status,
      contract_id |-> store[j].job_data.contract_id,
      job_type |-> store[j].job_data.job_type,
      submitted_at |-> store[j].submitted_at] :
        j \in {i \in JobIds : store[i] # NoDoc /\ (status = "" \/ store[i].status = status)}}

\* list_jobs(status): the matching MongoDB documents (a PyMongoError is
\* swallowed); the in-memory dict only when that gave nothing. job_id is
\* unique in either store, so the list has no duplicates.
ListJobs(status, readFails) ==
    LET fromMongo == IF mongodb_enabled /\ ~readFails
                        THEN Summaries(jobs_collection, status) ELSE {}
        jobs == IF fromMongo # {} THEN fromMongo ELSE Summaries(job_store, status)
    IN [jobs |-> jobs, count |-> Cardinality(jobs)]

\* get_risk_result: MongoDB first (a PyMongoError is swallowed), then the
\* in-memory dict, else status "unknown"
GetRiskResult(job_id, readFails) ==
    LET fromMongo == IF mongodb_enabled /\ ~readFails /\ job_id \in JobIds
                        THEN jobs_collection[job_id] ELSE NoDoc
        job_info == IF fromMongo # NoDoc THEN fromMongo
                    ELSE IF job_id \in JobIds THEN job_store[job_id] ELSE NoDoc
    IN IF job_info = NoDoc
          THEN [error |-> "Job not found", status |-> "unknown"]
          ELSE [job_id |-> job_id,
                status |-> job_info.status,
                submitted_at |-> job_info.submitted_at,
                result |-> job_info.result,
                error |-> job_info.error,
                completed_at |-> job_info.completed_at]

\* ------------------------------------------------------------ risk-worker

\* contracts present in the contracts collection
KnownContracts == {"ctr-fx-001"}

\* contract_data of process_job: the document found, else (collection None,
\* PyMongoError, or no such contract) the built-in fallback dict
LookupContract(contract_id, lookupFails) ==
    IF worker_mongo /\ ~lookupFails /\ contract_id \in KnownContracts
       THEN [contract_id |-> contract_id, source |-> "database"]
       ELSE [contract_id |-> contract_id, source |-> "fallback"]

\* variant: a job of any other type is computed like an fx_var job
ComputeOutcomes_NoTypeCheck(job_type) ==
    IF job_type = "ir_dv01"
       THEN {[ok |-> TRUE, result |-> [dv01 |-> v], error |-> NoneStr] : v \in Dv01Values}
            \cup {[ok |-> FALSE, result |-> Null, error |-> "computation error"]}
       ELSE {[ok |-> TRUE, result |-> [var |-> v], error |-> NoneStr] : v \in VarValues}
            \cup {[ok |-> FALSE, result |-> Null, error |-> "computation error"]}

\* what the pricing collaborator (compute_fx_var / compute_ir_dv01) can do for
\* a job of that type: return a value, or raise inside process_job's try
ComputeOutcomes(job_type) ==
    IF job_type = "fx_var"
       THEN {[ok |-> TRUE, result |-> [var |-> v], error |-> NoneStr] : v \in VarValues}
            \cup {[ok |-> FALSE, result |-> Null, error |-> "computation error"]}
    ELSE IF job_type = "ir_dv01"
       THEN {[ok |-> TRUE, result |-> [dv01 |-> v], error |-> NoneStr] : v \in Dv01Values}
            \cup {[ok |-> FALSE, result |-> Null, error |-> "computation error"]}
    ELSE {[ok |-> FALSE, result |-> Null, error |-> "Unknown job type: " \o job_type]}

\* variant: the except branch reports status 'error'
ResultEnvelope_StatusError(m, o) ==
    [job_id |-> m.job_id,
     job_type |-> m.job_type,
     status |-> IF o.ok THEN "succeeded" ELSE "error",
     contract_id |-> m.contract_id,
     result |-> o.result,
     error |-> o.error]

\* the dict process_job returns for job message m and computation outcome o
ResultEnvelope(m, o) ==
    [job_id |-> m.job_id,
     job_type |-> m.job_type,
     status |-> IF o.ok THEN "succeeded" ELSE "failed",
     contract_id |-> m.contract_id,
     result |-> o.result,
     error |-> o.error]

\* variant: no prefetch limit and a handler task per message, so a worker takes
\* the next message while it still holds one
process_job_Concurrent(w) ==
    /\ wpc[w] \in {"idle", "processed", "sent", "published"}
    /\ jobsQueue # <<>>
    /\ jobsQueue' = Tail(jobsQueue)
    /\ LET m == Head(jobsQueue)
       IN IF m.kind = "malformed"
             THEN /\ wpc' = [wpc EXCEPT ![w] = "stopped"]
                  /\ UNCHANGED <<wmsg, wres>>
             ELSE \E o \in ComputeOutcomes(m.job_type) :
                  /\ wres' = [wres EXCEPT ![w] = ResultEnvelope(m, o)]
                  /\ wmsg' = [wmsg EXCEPT ![w] = m]
                  /\ wpc' = [wpc EXCEPT ![w] = "processed"]
    /\ UNCHANGED <<intakeVars, marketVars, mongodb_enabled, worker_mongo, jobs_collection, job_store, nextId,
                   nForeign, now, wstored, orchUp, resultsQueue, orchVars,
                   published, acked, crashes>>

\* consume_jobs, one iteration up to the call of publish_result: the broker
\* hands the head of risk.jobs to the idle consumer (prefetch_count=1), then
\* json.loads(message.body) and process_job(job_data).
\* A body that is no job JSON raises outside process_job's try: message.process()
\* rejects the message without requeue and the exception leaves consume_jobs.
process_job(w) ==
    /\ wpc[w] = "idle"
    /\ jobsQueue # <<>>
    /\ jobsQueue' = Tail(jobsQueue)
    /\ LET m == Head(jobsQueue)
       IN IF m.kind = "malformed"
             THEN /\ wpc' = [wpc EXCEPT ![w] = "stopped"]
                  /\ UNCHANGED <<wmsg, wres>>
             ELSE \E lookupFails \in BOOLEAN :
                  \* contract_data is always a dict when the computation starts
                  /\ LookupContract(m.contract_id, lookupFails).contract_id = m.contract_id
                  /\ \E o \in ComputeOutcomes(m.job_type) :
                        wres' = [wres EXCEPT ![w] = ResultEnvelope(m, o)]
                  /\ wmsg' = [wmsg EXCEPT ![w] = m]
                  /\ wpc' = [wpc EXCEPT ![w] = "processed"]
    /\ UNCHANGED <<intakeVars, marketVars, mongodb_enabled, worker_mongo, jobs_collection, job_store, nextId,
                   nForeign, now, wstored, orchUp, resultsQueue, orchVars,
                   published, acked, crashes>>

\* update_data of publish_result, $set on the document
UpdatedDoc(doc, e, t) ==
    [doc EXCEPT !.status = e.status,
                !.result = e.result,
                !.error = e.error,
                !.completed_at = t]

\* outcome of the update block of publish_result for envelope e
StoreOutcome(e, storeFails) ==
    IF ~worker_mongo THEN "skipped"
    ELSE IF storeFails THEN "raised"
    ELSE IF e.job_id \in JobIds /\ jobs_collection[e.job_id] # NoDoc THEN "applied"
    ELSE "nomatch"

\* first half of publish_result, await exchange.publish(...): the exchange
\* routes the envelope to the orchestrator's queue when it is bound (else the
\* message is unroutable and dropped). The orchestrator is another process and
\* can consume the envelope before the worker goes on.
exchange_publish(w) ==
    /\ wpc[w] = "processed"
    /\ resultsQueue' = IF orchUp THEN Append(resultsQueue, wres[w]) ELSE resultsQueue
    /\ wpc' = [wpc EXCEPT ![w] = "sent"]
    /\ UNCHANGED <<intakeVars, marketVars, mongodb_enabled, worker_mongo, jobs_collection, job_store, nextId,
                   nForeign, now, jobsQueue, wmsg, wres, wstored, orchUp, orchVars,
                   published, acked, crashes>>

\* second half of publish_result, up to its return:
\* update_one({"job_id"}, {"$set": update_data}) without upsert, a PyMongoError
\* being printed and swallowed.
publish_result(w, t, storeFails) ==
    /\ wpc[w] = "sent"
    /\ storeFails => worker_mongo
    /\ t \in UtcNow
    /\ now' = t
    /\ LET e == wres[w]
           out == StoreOutcome(e, storeFails)
       IN /\ jobs_collection' = IF out = "applied"
                                   THEN [jobs_collection EXCEPT ![e.job_id] = UpdatedDoc(@, e, t)]
                                   ELSE jobs_collection
          /\ wstored' = [wstored EXCEPT ![w] = out]
    /\ wpc' = [wpc EXCEPT ![w] = "published"]
    /\ UNCHANGED <<intakeVars, marketVars, mongodb_enabled, worker_mongo, job_store, nextId, nForeign,
                   jobsQueue, wmsg, wres, orchUp, resultsQueue, orchVars,
                   published, acked, crashes>>

\* publish_result raises in its first half (json.dumps or exchange.publish):
\* message.process() rejects the message with requeue=False when the channel is
\* usable; when the connection is gone the broker requeues the unacknowledged
\* message. Either way the exception leaves consume_jobs.
publish_result_raises(w, channelUsable) ==
    /\ wpc[w] = "processed"
    /\ jobsQueue' = IF channelUsable THEN jobsQueue ELSE <<wmsg[w]>> \o jobsQueue
    /\ wpc' = [wpc EXCEPT ![w] = "stopped"]
    /\ wmsg' = [wmsg EXCEPT ![w] = NoMsg]
    /\ wres' = [wres EXCEPT ![w] = Null]
    /\ UNCHANGED <<intakeVars, marketVars, mongodb_enabled, worker_mongo, jobs_collection, job_store, nextId,
                   nForeign, now, wstored, orchUp, resultsQueue, orchVars,
                   published, acked, crashes>>

\* message.process() exits normally: basic.ack, the iterator yields the next message
Ack(w) ==
    /\ wpc[w] = "published"
    /\ wpc' = [wpc EXCEPT ![w] = "idle"]
    /\ wmsg' = [wmsg EXCEPT ![w] = NoMsg]
    /\ wres' = [wres EXCEPT ![w] = Null]
    /\ wstored' = [wstored EXCEPT ![w] = "none"]
    /\ acked' = acked \cup {wmsg[w].job_id}
    /\ UNCHANGED <<intakeVars, marketVars, mongodb_enabled, worker_mongo, jobs_collection, job_store, nextId,
                   nForeign, now, jobsQueue, orchUp, resultsQueue, orchVars,
                   published, crashes>>

\* the worker's connection drops while it holds an unacknowledged message: the
\* broker requeues the message (at-least-once) and connect_robust reconnects
ConnectionLost(w) ==
    /\ wpc[w] \in {"processed", "sent", "published"}
    /\ crashes < MaxCrashes
    /\ crashes' = crashes + 1
    /\ jobsQueue' = <<wmsg[w]>> \o jobsQueue
    /\ wpc' = [wpc EXCEPT ![w] = "idle"]
    /\ wmsg' = [wmsg EXCEPT ![w] = NoMsg]
    /\ wres' = [wres EXCEPT ![w] = Null]
    /\ wstored' = [wstored EXCEPT ![w] = "none"]
    /\ UNCHANGED <<intakeVars, marketVars, mongodb_enabled, worker_mongo, jobs_collection, job_store, nextId,
                   nForeign, now, orchUp, resultsQueue, orchVars,
                   published, acked>>

\* ------------------------------------------------------ agent orchestrator

\* consume_risk_results declares the durable queue and binds it to risk.result
OrchStart ==
    /\ ~orchUp
    /\ orchUp' = TRUE
    /\ UNCHANGED <<intakeVars, marketVars, mongodb_enabled, worker_mongo, jobs_collection, job_store, nextId,
                   nForeign, now, jobsQueue, workerVars, resultsQueue, orchVars,
                   published, acked, crashes>>

\* the iterator yields the next result message
OrchReceive ==
    /\ orchUp
    /\ opc = "idle"
    /\ resultsQueue # <<>>
    /\ omsg' = Head(resultsQueue)
    /\ resultsQueue' = Tail(resultsQueue)
    /\ opc' = "handling"
    /\ UNCHANGED <<intakeVars, marketVars, mongodb_enabled, worker_mongo, jobs_collection, job_store, nextId,
                   nForeign, now, jobsQueue, workerVars, orchUp, invocations,
                   lastCall, ohandled, invVars, published, acked, crashes>>

\* abs()
Abs(x) == IF x < 0 THEN 0 - x ELSE x

\* variant: dv01 is compared as a signed value
BreachDetails_SignedDv01(result) ==
    (IF "var" \in DOMAIN result /\ result.var > FX_VAR_THRESHOLD
        THEN <<[metric |-> "var", value |-> result.var, threshold |-> FX_VAR_THRESHOLD]>>
        ELSE <<>>)
    \o
    (IF "dv01" \in DOMAIN result /\ result.dv01 > IR_DV01_THRESHOLD
        THEN <<[metric |-> "dv01", value |-> result.dv01, threshold |-> IR_DV01_THRESHOLD]>>
        ELSE <<>>)

\* variant: the comparisons are not strict
BreachDetails_NonStrict(result) ==
    (IF "var" \in DOMAIN result /\ result.var >= FX_VAR_THRESHOLD
        THEN <<[metric |-> "var", value |-> result.var, threshold |-> FX_VAR_THRESHOLD]>>
        ELSE <<>>)
    \o
    (IF "dv01" \in DOMAIN result /\ Abs(result.dv01) >= IR_DV01_THRESHOLD
        THEN <<[metric |-> "dv01", value |-> Abs(result.dv01), threshold |-> IR_DV01_THRESHOLD]>>
        ELSE <<>>)

\* breach_details of handle_risk_result for a result dict, in append order:
\* var is compared as it is, dv01 by absolute value, both strictly
BreachDetails(result) ==
    (IF "var" \in DOMAIN result /\ result.var > FX_VAR_THRESHOLD
        THEN <<[metric |-> "var", value |-> result.var, threshold |-> FX_VAR_THRESHOLD]>>
        ELSE <<>>)
    \o
    (IF "dv01" \in DOMAIN result /\ Abs(result.dv01) > IR_DV01_THRESHOLD
        THEN <<[metric |-> "dv01", value |-> Abs(result.dv01), threshold |-> IR_DV01_THRESHOLD]>>
        ELSE <<>>)

\* the keyword arguments of the invoke_foundry_agent call of handle_risk_result
BreachCall(result_data, t) ==
    [agent_name |-> THRESHOLD_BREACH_AGENT,
     contract_id |-> result_data.contract_id,
     risk_result |-> result_data.result,
     breach_details |-> BreachDetails(result_data.result),
     timestamp |-> t]

\* variant: one invoke_foundry_agent call per breach entry
handle_risk_result_PerBreach ==
    /\ opc = "handling"
    /\ IF omsg.status = "succeeded" /\ BreachDetails(omsg.result) # <<>>
          THEN /\ lastCall' = BreachCall(omsg, now)
               /\ invocations' = IF omsg.job_id \in JobIds
                                    THEN [invocations EXCEPT ![omsg.job_id] =
                                             @ + Len(BreachDetails(omsg.result))]
                                    ELSE invocations
          ELSE UNCHANGED <<lastCall, invocations>>
    /\ opc' = "idle"
    /\ omsg' = Null
    /\ ohandled' = omsg
    /\ UNCHANGED <<intakeVars, marketVars, mongodb_enabled, worker_mongo, jobs_collection, job_store, nextId,
                   nForeign, now, jobsQueue, workerVars, orchUp, resultsQueue,
                   invVars, published, acked, crashes>>

\* variant: the status of the envelope is not looked at
handle_risk_result_AnyStatus ==
    /\ opc = "handling"
    /\ IF BreachDetails(omsg.result) # <<>>
          THEN /\ lastCall' = BreachCall(omsg, now)
               /\ invocations' = IF omsg.job_id \in JobIds
                                    THEN [invocations EXCEPT ![omsg.job_id] = @ + 1]
                                    ELSE invocations
          ELSE UNCHANGED <<lastCall, invocations>>
    /\ opc' = "idle"
    /\ omsg' = Null
    /\ ohandled' = omsg
    /\ UNCHANGED <<intakeVars, marketVars, mongodb_enabled, worker_mongo, jobs_collection, job_store, nextId,
                   nForeign, now, jobsQueue, workerVars, orchUp, resultsQueue,
                   invVars, published, acked, crashes>>

\* handle_risk_result(result_data): nothing for a status other than succeeded;
\* on a breach one invoke_foundry_agent call (which returns a dict whatever the
\* agent does); then message.process() exits normally in consume_risk_results
handle_risk_result ==
    /\ opc = "handling"
    /\ IF omsg.status = "succeeded" /\ BreachDetails(omsg.result) # <<>>
          THEN /\ lastCall' = BreachCall(omsg, now)
               /\ invocations' = IF omsg.job_id \in JobIds
                                    THEN [invocations EXCEPT ![omsg.job_id] = @ + 1]
                                    ELSE invocations
          ELSE UNCHANGED <<lastCall, invocations>>
    /\ opc' = "idle"
    /\ omsg' = Null
    /\ ohandled' = omsg
    /\ UNCHANGED <<intakeVars, marketVars, mongodb_enabled, worker_mongo, jobs_collection, job_store, nextId,
                   nForeign, now, jobsQueue, workerVars, orchUp, resultsQueue,
                   invVars, published, acked, crashes>>

\* ---------------------------------------------------------- market data
\* key order of the dict get_market_snapshot builds: the pairs, then 'as_of'
MarketKeys == <<"EURUSD", "USDMXN", "as_of">>

\* mcp-market get_market_snapshot(): one entry per document, and 'as_of'
Snapshot(t) ==
    [k \in {p \in Pairs : market_collection[p] # NoQuote} \cup {"as_of"} |->
        IF k = "as_of" THEN t ELSE [volatility |-> market_collection[k]]]

\* the list detect_market_shock collects: 'as_of' is skipped, a pair is
\* appended when its volatility > 0.15
Shocks(market_data) ==
    LET keys == SelectSeq(MarketKeys,
                    LAMBDA k : /\ k \in DOMAIN market_data
                               /\ k # "as_of"
                               /\ market_data[k].volatility > VolatilityThreshold)
    IN [n \in 1..Len(keys) |->
           [currency_pair |-> keys[n],
            volatility |-> market_data[keys[n]].volatility,
            type |-> "volatility_spike"]]

\* detect_market_shock(market_data): one invoke_foundry_agent call when the
\* list is not empty. No function of the repository calls it: it is in no
\* next-state relation.
detect_market_shock(market_data, t) ==
    /\ shockCalls' =
          IF Shocks(market_data) # <<>>
             THEN Append(shockCalls,
                         [agent_name |-> MARKET_SHOCK_AGENT,
                          context |-> [shocks |-> Shocks(market_data),
                                       market_snapshot |-> market_data,
                                       timestamp |-> t]])
             ELSE shockCalls
    /\ UNCHANGED <<intakeVars, market_collection, mongodb_enabled, worker_mongo, jobs_collection,
                   job_store, nextId, nForeign, now, jobsQueue, workerVars, orchUp,
                   resultsQueue, orchVars, published, acked, crashes>>

\* update_market_data (at start-up and every 15 minutes): an upsert per pair
\* of MARKET_CURRENCY_PAIRS with a volatility of random.uniform(0.07, 0.12);
\* written are the pairs whose update_one did not raise (none when the
\* connection fails or no connection string is set)
update_market_data(written, vols) ==
    /\ market_collection' =
          [p \in Pairs |-> IF p \in written THEN vols[p] ELSE market_collection[p]]
    /\ UNCHANGED <<intakeVars, shockCalls, mongodb_enabled, worker_mongo, jobs_collection,
                   job_store, nextId, nForeign, now, jobsQueue, workerVars, orchUp,
                   resultsQueue, orchVars, published, acked, crashes>>

\* ---------------------------------------------------- invoke_foundry_agent

\* the callers whose invocation is followed: the breach detector and the scan
Invokers == {"handle_risk_result", "run_portfolio_scan"}

\* str(e) is modelled as its sequence of words; e has no status_code attribute
NoStatusCode == 0
RetryExhaustedText == <<"Too", "Many", "Requests:", "exceeded", "retry", "attempts">>

\* exceptions an attempt can raise
Exceptions ==
    {[status_code |-> 429, message |-> <<"rate", "limited">>],
     [status_code |-> NoStatusCode, message |-> <<"Error", "code:", "429">>],
     [status_code |-> NoStatusCode, message |-> <<"too_many_requests">>],
     [status_code |-> 500, message |-> <<"internal", "server", "error">>],
     [status_code |-> NoStatusCode, message |-> RetryExhaustedText]}

\* needle in str(e)
Contains(message, needle) == \E k \in 1..Len(message) : message[k] = needle

\* the two tests of the except block that lead to sleep-and-continue
IsRateLimit(e) ==
    \/ e.status_code = 429
    \/ Contains(e.message, "429")
    \/ Contains(e.message, "too_many_requests")

\* the returned dicts (output, conversation_id and agent_id are the agent's)
SuccessResult == [status |-> "success"]
ErrorResult(message) == [status |-> "error", error |-> message]

nonInvVars == <<intakeVars, marketVars, mongodb_enabled, worker_mongo, jobs_collection, job_store, nextId,
                nForeign, now, jobsQueue, workerVars, orchUp, resultsQueue,
                opc, omsg, invocations, lastCall, ohandled, published, acked, crashes>>

\* entry of invoke_foundry_agent up to the first attempt: max_retries = 5, delay = 2
invoke_foundry_agent(i) ==
    /\ ipc[i] \in {"idle", "returned"}
    /\ ipc' = [ipc EXCEPT ![i] = "attempt"]
    /\ iattempt' = [iattempt EXCEPT ![i] = 1]
    /\ idelay' = [idelay EXCEPT ![i] = BaseDelay]
    /\ icalls' = [icalls EXCEPT ![i] = 0]
    /\ islept' = [islept EXCEPT ![i] = <<>>]
    /\ iret' = [iret EXCEPT ![i] = Null]
    /\ UNCHANGED nonInvVars

\* the try block runs to its return
AttemptSucceeds(i) ==
    /\ ipc[i] = "attempt"
    /\ icalls' = [icalls EXCEPT ![i] = @ + 1]
    /\ ipc' = [ipc EXCEPT ![i] = "returned"]
    /\ iret' = [iret EXCEPT ![i] = SuccessResult]
    /\ UNCHANGED <<iattempt, idelay, islept, nonInvVars>>

\* variant: every exception is retried after a sleep
AttemptRaises_RetryAll(i, e) ==
    /\ ipc[i] = "attempt"
    /\ icalls' = [icalls EXCEPT ![i] = @ + 1]
    /\ ipc' = [ipc EXCEPT ![i] = "sleeping"]
    /\ iret' = iret
    /\ UNCHANGED <<iattempt, idelay, islept, nonInvVars>>

\* variant: only rate-limit signals are caught; any other exception leaves
\* invoke_foundry_agent and reaches its caller
AttemptRaises_Propagate(i, e) ==
    /\ ipc[i] = "attempt"
    /\ icalls' = [icalls EXCEPT ![i] = @ + 1]
    /\ IF IsRateLimit(e)
          THEN ipc' = [ipc EXCEPT ![i] = "sleeping"]
          ELSE ipc' = [ipc EXCEPT ![i] = "raised"]
    /\ iret' = iret
    /\ UNCHANGED <<iattempt, idelay, islept, nonInvVars>>

\* the try block raises e: a rate-limit signal leads to the sleep, any other
\* exception to return {"status": "error", "error": str(e)}
AttemptRaises(i, e) ==
    /\ ipc[i] = "attempt"
    /\ icalls' = [icalls EXCEPT ![i] = @ + 1]
    /\ IF IsRateLimit(e)
          THEN /\ ipc' = [ipc EXCEPT ![i] = "sleeping"]
               /\ iret' = iret
          ELSE /\ ipc' = [ipc EXCEPT ![i] = "returned"]
               /\ iret' = [iret EXCEPT ![i] = ErrorResult(e.message)]
    /\ UNCHANGED <<iattempt, idelay, islept, nonInvVars>>

\* variant: the delay grows by the base instead of doubling
BackoffSleep_Linear(i) ==
    /\ ipc[i] = "sleeping"
    /\ islept' = [islept EXCEPT ![i] = Append(@, idelay[i])]
    /\ idelay' = [idelay EXCEPT ![i] = @ + BaseDelay]
    /\ IF iattempt[i] < max_retries
          THEN /\ iattempt' = [iattempt EXCEPT ![i] = @ + 1]
               /\ ipc' = [ipc EXCEPT ![i] = "attempt"]
               /\ iret' = iret
          ELSE /\ iattempt' = iattempt
               /\ ipc' = [ipc EXCEPT ![i] = "returned"]
               /\ iret' = [iret EXCEPT ![i] = ErrorResult(RetryExhaustedText)]
    /\ UNCHANGED <<icalls, nonInvVars>>

\* variant: the loop runs over range(1, max_retries + 2)
BackoffSleep_OneMore(i) ==
    /\ ipc[i] = "sleeping"
    /\ islept' = [islept EXCEPT ![i] = Append(@, idelay[i])]
    /\ idelay' = [idelay EXCEPT ![i] = @ * 2]
    /\ IF iattempt[i] < max_retries + 1
          THEN /\ iattempt' = [iattempt EXCEPT ![i] = @ + 1]
               /\ ipc' = [ipc EXCEPT ![i] = "attempt"]
               /\ iret' = iret
          ELSE /\ iattempt' = iattempt
               /\ ipc' = [ipc EXCEPT ![i] = "returned"]
               /\ iret' = [iret EXCEPT ![i] = ErrorResult(RetryExhaustedText)]
    /\ UNCHANGED <<icalls, nonInvVars>>

\* variant: no sleep after the last allowed attempt
BackoffSleep_NoLastSleep(i) ==
    /\ ipc[i] = "sleeping"
    /\ IF iattempt[i] < max_retries
          THEN /\ islept' = [islept EXCEPT ![i] = Append(@, idelay[i])]
               /\ idelay' = [idelay EXCEPT ![i] = @ * 2]
               /\ iattempt' = [iattempt EXCEPT ![i] = @ + 1]
               /\ ipc' = [ipc EXCEPT ![i] = "attempt"]
               /\ iret' = iret
          ELSE /\ UNCHANGED <<islept, idelay, iattempt>>
               /\ ipc' = [ipc EXCEPT ![i] = "returned"]
               /\ iret' = [iret EXCEPT ![i] = ErrorResult(RetryExhaustedText)]
    /\ UNCHANGED <<icalls, nonInvVars>>

\* variant: delay is one module-level value shared by all invocations
BackoffSleep_SharedDelay(i) ==
    /\ ipc[i] = "sleeping"
    /\ islept' = [islept EXCEPT ![i] = Append(@, idelay[i])]
    /\ idelay' = [j \in Invokers |-> idelay[j] * 2]
    /\ IF iattempt[i] < max_retries
          THEN /\ iattempt' = [iattempt EXCEPT ![i] = @ + 1]
               /\ ipc' = [ipc EXCEPT ![i] = "attempt"]
               /\ iret' = iret
          ELSE /\ iattempt' = iattempt
               /\ ipc' = [ipc EXCEPT ![i] = "returned"]
               /\ iret' = [iret EXCEPT ![i] = ErrorResult(RetryExhaustedText)]
    /\ UNCHANGED <<icalls, nonInvVars>>

\* await asyncio.sleep(delay); delay *= 2; continue -- and, when the range is
\* used up, the return after the loop
BackoffSleep(i) ==
    /\ ipc[i] = "sleeping"
    /\ islept' = [islept EXCEPT ![i] = Append(@, idelay[i])]
    /\ idelay' = [idelay EXCEPT ![i] = @ * 2]
    /\ IF iattempt[i] < max_retries
          THEN /\ iattempt' = [iattempt EXCEPT ![i] = @ + 1]
               /\ ipc' = [ipc EXCEPT ![i] = "attempt"]
               /\ iret' = iret
          ELSE /\ iattempt' = iattempt
               /\ ipc' = [ipc EXCEPT ![i] = "returned"]
               /\ iret' = [iret EXCEPT ![i] = ErrorResult(RetryExhaustedText)]
    /\ UNCHANGED <<icalls, nonInvVars>>

\* ------------------------------------- handle_risk_result and its invocation
\* the variables handle_risk_result and message.process() leave alone
handleFrame == <<intakeVars, marketVars, mongodb_enabled, worker_mongo, jobs_collection,
                 job_store, nextId, nForeign, now, jobsQueue, workerVars, orchUp,
                 published, acked, crashes>>

\* variant: the invocation is started with asyncio.create_task and not awaited
handle_risk_result_begin_Task ==
    /\ opc = "handling"
    /\ IF omsg.status = "succeeded" /\ BreachDetails(omsg.result) # <<>>
          THEN /\ lastCall' = BreachCall(omsg, now)
               /\ invocations' = IF omsg.job_id \in JobIds
                                    THEN [invocations EXCEPT ![omsg.job_id] = @ + 1]
                                    ELSE invocations
               /\ ipc' = [ipc EXCEPT !["handle_risk_result"] = "attempt"]
               /\ iattempt' = [iattempt EXCEPT !["handle_risk_result"] = 1]
               /\ idelay' = [idelay EXCEPT !["handle_risk_result"] = BaseDelay]
               /\ icalls' = [icalls EXCEPT !["handle_risk_result"] = 0]
               /\ islept' = [islept EXCEPT !["handle_risk_result"] = <<>>]
               /\ iret' = [iret EXCEPT !["handle_risk_result"] = Null]
          ELSE UNCHANGED <<lastCall, invocations, invVars>>
    /\ opc' = "idle"
    /\ omsg' = Null
    /\ ohandled' = omsg
    /\ UNCHANGED <<resultsQueue, handleFrame>>

\* handle_risk_result up to its await: an envelope that is not succeeded or
\* breaches nothing makes it return (the message is acknowledged); a breach
\* enters invoke_foundry_agent (max_retries = 5, delay = 2, attempt 1)
handle_risk_result_begin ==
    /\ opc = "handling"
    /\ IF omsg.status = "succeeded" /\ BreachDetails(omsg.result) # <<>>
          THEN /\ lastCall' = BreachCall(omsg, now)
               /\ invocations' = IF omsg.job_id \in JobIds
                                    THEN [invocations EXCEPT ![omsg.job_id] = @ + 1]
                                    ELSE invocations
               /\ ipc' = [ipc EXCEPT !["handle_risk_result"] = "attempt"]
               /\ iattempt' = [iattempt EXCEPT !["handle_risk_result"] = 1]
               /\ idelay' = [idelay EXCEPT !["handle_risk_result"] = BaseDelay]
               /\ icalls' = [icalls EXCEPT !["handle_risk_result"] = 0]
               /\ islept' = [islept EXCEPT !["handle_risk_result"] = <<>>]
               /\ iret' = [iret EXCEPT !["handle_risk_result"] = Null]
               /\ opc' = "invoking"
               /\ UNCHANGED <<omsg, ohandled>>
          ELSE /\ opc' = "idle"
               /\ omsg' = Null
               /\ ohandled' = omsg
               /\ UNCHANGED <<lastCall, invocations, invVars>>
    /\ UNCHANGED <<resultsQueue, handleFrame>>

\* variant: a returned status 'error' is raised, and message.process() is
\* used with requeue=True
handle_risk_result_return_Requeue ==
    /\ opc = "invoking"
    /\ ipc["handle_risk_result"] = "returned"
    /\ opc' = "idle"
    /\ omsg' = Null
    /\ IF iret["handle_risk_result"].status = "error"
          THEN /\ resultsQueue' = Append(resultsQueue, omsg)
               /\ ohandled' = ohandled
          ELSE /\ resultsQueue' = resultsQueue
               /\ ohandled' = omsg
    /\ UNCHANGED <<invocations, lastCall, invVars, handleFrame>>

\* invoke_foundry_agent has returned: its dict is dropped, handle_risk_result
\* returns None and message.process() acknowledges the message
handle_risk_result_return ==
    /\ opc = "invoking"
    /\ ipc["handle_risk_result"] = "returned"
    /\ opc' = "idle"
    /\ omsg' = Null
    /\ ohandled' = omsg
    /\ UNCHANGED <<resultsQueue, invocations, lastCall, invVars, handleFrame>>

\* ------------------------------------------------------------ environment

\* a message on the durable queue risk.jobs that mcp-risk did not produce:
\* a body that is not a job JSON, or a job of a type the worker does not compute
ForeignPublish(kind) ==
    /\ nForeign < MaxForeign
    /\ nForeign' = nForeign + 1
    /\ LET id == MaxJobs + nForeign + 1
       IN jobsQueue' = Append(jobsQueue,
            IF kind = "malformed"
               THEN [kind |-> "malformed", job_id |-> id, job_type |-> NoneStr,
                     contract_id |-> NoneStr, params |-> Null, idempotency_key |-> Null]
               ELSE [kind |-> "job", job_id |-> id, job_type |-> "stress_test",
                     contract_id |-> "ctr-fx-001", params |-> Null, idempotency_key |-> Null])
    /\ UNCHANGED <<intakeVars, marketVars, mongodb_enabled, worker_mongo, jobs_collection, job_store, nextId,
                   now, workerVars, orchUp, resultsQueue, orchVars,
                   published, acked, crashes>>

Init ==
    /\ mongodb_enabled \in BOOLEAN
    /\ worker_mongo \in BOOLEAN
    /\ jobs_collection = [j \in JobIds |-> NoDoc]
    /\ job_store = [j \in JobIds |-> NoDoc]
    /\ nextId = 1
    /\ nForeign = 0
    /\ now = 0
    /\ jobsQueue = <<>>
    /\ wpc = [w \in Workers |-> "idle"]
    /\ wmsg = [w \in Workers |-> NoMsg]
    /\ wres = [w \in Workers |-> Null]
    /\ wstored = [w \in Workers |-> "none"]
    /\ orchUp = FALSE
    /\ resultsQueue = <<>>
    /\ opc = "idle"
    /\ omsg = Null
    /\ invocations = [j \in JobIds |-> 0]
    /\ lastCall = Null
    /\ ohandled = Null
    /\ ipc = [i \in Invokers |-> "idle"]
    /\ iattempt = [i \in Invokers |-> 0]
    /\ idelay = [i \in Invokers |-> 0]
    /\ icalls = [i \in Invokers |-> 0]
    /\ islept = [i \in Invokers |-> <<>>]
    /\ iret = [i \in Invokers |-> Null]
    /\ published = {}
    /\ acked = {}
    /\ crashes = 0
    /\ market_collection = [p \in Pairs |-> NoQuote]
    /\ shockCalls = <<>>
    /\ awaiting = {}

\* mcp-risk tools, the workers' consume loops and the broker's redelivery
Next ==
    \/ \E c \in ContractIds, t \in 0..MaxClock, i, p \in BOOLEAN :
          run_fx_var(c, DefaultFxVarParams, t, i, p)
    \/ \E c \in ContractIds, t \in 0..MaxClock, i, p \in BOOLEAN :
          run_ir_dv01(c, DefaultIrDv01Params, t, i, p)
    \/ \E w \in Workers : process_job(w)
    \/ \E w \in Workers : exchange_publish(w)
    \/ \E w \in Workers, t \in 0..MaxClock, f \in BOOLEAN : publish_result(w, t, f)
    \/ \E w \in Workers, u \in BOOLEAN : publish_result_raises(w, u)
    \/ \E w \in Workers : Ack(w)
    \/ \E w \in Workers : ConnectionLost(w)

Spec == Init /\ [][Next]_vars

\* the same pipeline with another producer on risk.jobs (the clock stands still)
NextForeign ==
    \/ \E c \in ContractIds, i, p \in BOOLEAN : run_fx_var(c, DefaultFxVarParams, now, i, p)
    \/ \E k \in {"malformed", "unknown_type"} : ForeignPublish(k)
    \/ \E w \in Workers : process_job(w)
    \/ \E w \in Workers : exchange_publish(w)
    \/ \E w \in Workers, f \in BOOLEAN : publish_result(w, now, f)
    \/ \E w \in Workers, u \in BOOLEAN : publish_result_raises(w, u)
    \/ \E w \in Workers : Ack(w)

SpecForeign == Init /\ [][NextForeign]_vars

\* the workers with only the other producer's messages on risk.jobs
NextUnknownType ==
    \/ \E k \in {"malformed", "unknown_type"} : ForeignPublish(k)
    \/ \E w \in Workers : process_job(w)
    \/ \E w \in Workers : exchange_publish(w)
    \/ \E w \in Workers, f \in BOOLEAN : publish_result(w, now, f)
    \/ \E w \in Workers, u \in BOOLEAN : publish_result_raises(w, u)
    \/ \E w \in Workers : Ack(w)

SpecUnknownType == Init /\ [][NextUnknownType]_vars

\* jobs of both job types and messages of other producers, each worker
\* followed from taking a message to the exchange.publish of its envelope
NextEnvelope ==
    \/ \E c \in ContractIds : run_fx_var(c, DefaultFxVarParams, now, FALSE, FALSE)
    \/ \E c \in ContractIds : run_ir_dv01(c, DefaultIrDv01Params, now, FALSE, FALSE)
    \/ \E k \in {"malformed", "unknown_type"} : ForeignPublish(k)
    \/ \E w \in Workers : process_job(w)
    \/ \E w \in Workers : exchange_publish(w)

SpecEnvelope == Init /\ [][NextEnvelope]_vars

\* the workers' consume loops with every way a message leaves a worker
NextWorkers ==
    \/ \E c \in ContractIds : run_fx_var(c, DefaultFxVarParams, now, FALSE, FALSE)
    \/ \E w \in Workers : process_job(w)
    \/ \E w \in Workers : exchange_publish(w)
    \/ \E w \in Workers : publish_result(w, now, FALSE)
    \/ \E w \in Workers, u \in BOOLEAN : publish_result_raises(w, u)
    \/ \E w \in Workers : Ack(w)
    \/ \E w \in Workers : ConnectionLost(w)

SpecWorkers == Init /\ [][NextWorkers]_vars

\* submissions that can repeat the arguments of an earlier one, and the workers
NextResubmit ==
    \/ \E c \in ContractIds, i, p \in BOOLEAN : run_fx_var(c, DefaultFxVarParams, now, i, p)
    \/ \E c \in ContractIds, i, p \in BOOLEAN : run_ir_dv01(c, DefaultIrDv01Params, now, i, p)
    \/ \E w \in Workers : process_job(w)
    \/ \E w \in Workers : exchange_publish(w)
    \/ \E w \in Workers : publish_result(w, now, FALSE)
    \/ \E w \in Workers : Ack(w)

SpecResubmit == Init /\ [][NextResubmit]_vars

\* run_fx_var calls taken in their two steps (record, then await
\* publish_job) and the workers' consume loops
NextIntake ==
    \/ \E c \in ContractIds, i \in BOOLEAN :
          StoreRecord("fx_var", c, DefaultFxVarParams, now, i)
    \/ \E m \in awaiting, p \in BOOLEAN : publish_job(m, p)
    \/ \E w \in Workers : process_job(w)
    \/ \E w \in Workers : exchange_publish(w)
    \/ \E w \in Workers : publish_result(w, now, FALSE)
    \/ \E w \in Workers : Ack(w)

SpecIntake == Init /\ [][NextIntake]_vars

\* the pipeline with the orchestrator's result consumer (the clock stands still)
NextOrch ==
    \/ \E c \in ContractIds, i, p \in BOOLEAN : run_fx_var(c, DefaultFxVarParams, now, i, p)
    \/ \E w \in Workers : process_job(w)
    \/ \E w \in Workers : exchange_publish(w)
    \/ \E w \in Workers, f \in BOOLEAN : publish_result(w, now, f)
    \/ \E w \in Workers, u \in BOOLEAN : publish_result_raises(w, u)
    \/ \E w \in Workers : Ack(w)
    \/ \E w \in Workers : ConnectionLost(w)
    \/ OrchStart
    \/ OrchReceive
    \/ handle_risk_result

SpecOrch == Init /\ [][NextOrch]_vars

\* submissions for contracts the contracts collection holds or not
SubmittedContracts == KnownContracts \cup {"ctr-missing"}

NextLookup ==
    \/ \E c \in SubmittedContracts, i, p \in BOOLEAN :
          run_fx_var(c, DefaultFxVarParams, now, i, p)
    \/ \E w \in Workers : process_job(w)
    \/ \E w \in Workers : exchange_publish(w)
    \/ \E w \in Workers, f \in BOOLEAN : publish_result(w, now, f)
    \/ \E w \in Workers, u \in BOOLEAN : publish_result_raises(w, u)
    \/ \E w \in Workers : Ack(w)

SpecLookup == Init /\ [][NextLookup]_vars

\* arguments a caller can give run_fx_var: the defaults, and one argument out
\* of its range at a time
FxVarParamInputs ==
    {DefaultFxVarParams,
     FxVarParams(0, 99, 20000),
     FxVarParams(1, 0, 20000),
     FxVarParams(1, 100, 20000),
     FxVarParams(1, 99, 0)}

NextValidate ==
    \/ \E c \in ContractIds, q \in FxVarParamInputs, i, p \in BOOLEAN :
          run_fx_var(c, q, now, i, p)
    \/ \E w \in Workers : process_job(w)
    \/ \E w \in Workers : exchange_publish(w)
    \/ \E w \in Workers, f \in BOOLEAN : publish_result(w, now, f)
    \/ \E w \in Workers : Ack(w)

SpecValidate == Init /\ [][NextValidate]_vars

\* invocations of the agent by the orchestrator's callers
NextInvoke ==
    \/ \E i \in Invokers : invoke_foundry_agent(i)
    \/ \E i \in Invokers : AttemptSucceeds(i)
    \/ \E i \in Invokers, e \in Exceptions : AttemptRaises(i, e)
    \/ \E i \in Invokers : BackoffSleep(i)

SpecInvoke == Init /\ [][NextInvoke]_vars

\* a step of invocation i once it is entered: the awaited agent call yields
\* its outcome, the sleep timer fires
InvokeStep(i) ==
    \/ AttemptSucceeds(i)
    \/ \E e \in Exceptions : AttemptRaises(i, e)
    \/ BackoffSleep(i)

\* the event loop resumes a coroutine whose awaited call or sleep is done
SpecInvokeFair ==
    Init /\ [][NextInvoke]_vars /\ \A i \in Invokers : WF_vars(InvokeStep(i))

\* metric values a result message can carry: beyond the threshold on the
\* negative side, zero, the threshold itself, just above it
MetricInputs(threshold) == {0 - (threshold + 1), 0, threshold, threshold + 1}

\* result dicts with any of the known metrics
ResultInputs ==
    {[k \in {} |-> 0]}
    \cup {[var |-> v] : v \in MetricInputs(FX_VAR_THRESHOLD)}
    \cup {[dv01 |-> d] : d \in MetricInputs(IR_DV01_THRESHOLD)}
    \cup {[var |-> v, dv01 |-> d] : v \in MetricInputs(FX_VAR_THRESHOLD),
                                   d \in MetricInputs(IR_DV01_THRESHOLD)}

\* message bodies on risk.results.orchestrator
EnvelopeInputs ==
    {[job_id |-> j, job_type |-> "fx_var", status |-> "succeeded",
      contract_id |-> c, result |-> r, error |-> NoneStr] :
        j \in JobIds, c \in ContractIds, r \in ResultInputs}
    \cup
    {[job_id |-> j, job_type |-> "fx_var", status |-> "failed",
      contract_id |-> c, result |-> Null, error |-> "computation error"] :
        j \in JobIds, c \in ContractIds}
    \cup
    {[job_id |-> j, job_type |-> "fx_var", status |-> st,
      contract_id |-> c, result |-> r, error |-> "computation error"] :
        j \in JobIds, c \in ContractIds, r \in ResultInputs,
        st \in RiskJobStatus \ {"succeeded"}}

\* the orchestrator's consumer holding any result message
InitBreach ==
    /\ mongodb_enabled \in BOOLEAN
    /\ worker_mongo \in BOOLEAN
    /\ jobs_collection = [j \in JobIds |-> NoDoc]
    /\ job_store = [j \in JobIds |-> NoDoc]
    /\ nextId = 1
    /\ nForeign = 0
    /\ now = 0
    /\ jobsQueue = <<>>
    /\ wpc = [w \in Workers |-> "idle"]
    /\ wmsg = [w \in Workers |-> NoMsg]
    /\ wres = [w \in Workers |-> Null]
    /\ wstored = [w \in Workers |-> "none"]
    /\ orchUp = TRUE
    /\ resultsQueue = <<>>
    /\ opc = "handling"
    /\ omsg \in EnvelopeInputs
    /\ invocations = [j \in JobIds |-> 0]
    /\ lastCall = Null
    /\ ohandled = Null
    /\ ipc = [i \in Invokers |-> "idle"]
    /\ iattempt = [i \in Invokers |-> 0]
    /\ idelay = [i \in Invokers |-> 0]
    /\ icalls = [i \in Invokers |-> 0]
    /\ islept = [i \in Invokers |-> <<>>]
    /\ iret = [i \in Invokers |-> Null]
    /\ published = {}
    /\ acked = {}
    /\ crashes = 0
    /\ market_collection = [p \in Pairs |-> NoQuote]
    /\ shockCalls = <<>>
    /\ awaiting = {}

NextBreach == handle_risk_result

SpecBreach == InitBreach /\ [][NextBreach]_vars

\* envelopes of a job whose var is just above, or at, FX_VAR_THRESHOLD, and
\* of a failed job
BreachEnvelope(j) ==
    [job_id |-> j, job_type |-> "fx_var", status |-> "succeeded",
     contract_id |-> "ctr-fx-001", result |-> [var |-> FX_VAR_THRESHOLD + 1],
     error |-> NoneStr]
QuietEnvelope(j) ==
    [job_id |-> j, job_type |-> "fx_var", status |-> "succeeded",
     contract_id |-> "ctr-fx-001", result |-> [var |-> FX_VAR_THRESHOLD],
     error |-> NoneStr]
FailedEnvelope(j) ==
    [job_id |-> j, job_type |-> "fx_var", status |-> "failed",
     contract_id |-> "ctr-fx-001", result |-> Null, error |-> "computation error"]

\* what risk.results.orchestrator can hold when the consumer takes its next
\* message: one envelope of job 1, or one of job 1 followed by one of job 2
HandleQueues ==
    LET first == {BreachEnvelope(1), QuietEnvelope(1), FailedEnvelope(1)}
        second == {BreachEnvelope(2), QuietEnvelope(2)}
    IN {<<a>> : a \in first} \cup {<<a, b>> : a \in first, b \in second}

\* the running consumer of the orchestrator with result messages waiting
InitHandle ==
    /\ mongodb_enabled \in BOOLEAN
    /\ worker_mongo \in BOOLEAN
    /\ jobs_collection = [j \in JobIds |-> NoDoc]
    /\ job_store = [j \in JobIds |-> NoDoc]
    /\ nextId = 1
    /\ nForeign = 0
    /\ now = 0
    /\ jobsQueue = <<>>
    /\ wpc = [w \in Workers |-> "idle"]
    /\ wmsg = [w \in Workers |-> NoMsg]
    /\ wres = [w \in Workers |-> Null]
    /\ wstored = [w \in Workers |-> "none"]
    /\ orchUp = TRUE
    /\ resultsQueue \in HandleQueues
    /\ opc = "idle"
    /\ omsg = Null
    /\ invocations = [j \in JobIds |-> 0]
    /\ lastCall = Null
    /\ ohandled = Null
    /\ ipc = [i \in Invokers |-> "idle"]
    /\ iattempt = [i \in Invokers |-> 0]
    /\ idelay = [i \in Invokers |-> 0]
    /\ icalls = [i \in Invokers |-> 0]
    /\ islept = [i \in Invokers |-> <<>>]
    /\ iret = [i \in Invokers |-> Null]
    /\ published = {}
    /\ acked = {}
    /\ crashes = 0
    /\ market_collection = [p \in Pairs |-> NoQuote]
    /\ shockCalls = <<>>
    /\ awaiting = {}

\* consume_risk_results: the message loop, handle_risk_result and the
\* invocation it awaits
NextHandle ==
    \/ OrchReceive
    \/ handle_risk_result_begin
    \/ AttemptSucceeds("handle_risk_result")
    \/ \E e \in Exceptions : AttemptRaises("handle_risk_result", e)
    \/ BackoffSleep("handle_risk_result")
    \/ handle_risk_result_return

SpecHandle == InitHandle /\ [][NextHandle]_vars

\* the orchestrator's start-up and scheduler (main, setup_scheduler): market
\* data updates, portfolio scans and the start of the results consumer. The
\* market collection is a database that outlives the process: it can hold any
\* documents when the orchestrator starts.
InitMarket ==
    /\ mongodb_enabled \in BOOLEAN
    /\ worker_mongo \in BOOLEAN
    /\ jobs_collection = [j \in JobIds |-> NoDoc]
    /\ job_store = [j \in JobIds |-> NoDoc]
    /\ nextId = 1
    /\ nForeign = 0
    /\ now = 0
    /\ jobsQueue = <<>>
    /\ wpc = [w \in Workers |-> "idle"]
    /\ wmsg = [w \in Workers |-> NoMsg]
    /\ wres = [w \in Workers |-> Null]
    /\ wstored = [w \in Workers |-> "none"]
    /\ orchUp = FALSE
    /\ resultsQueue = <<>>
    /\ opc = "idle"
    /\ omsg = Null
    /\ invocations = [j \in JobIds |-> 0]
    /\ lastCall = Null
    /\ ohandled = Null
    /\ ipc = [i \in Invokers |-> "idle"]
    /\ iattempt = [i \in Invokers |-> 0]
    /\ idelay = [i \in Invokers |-> 0]
    /\ icalls = [i \in Invokers |-> 0]
    /\ islept = [i \in Invokers |-> <<>>]
    /\ iret = [i \in Invokers |-> Null]
    /\ published = {}
    /\ acked = {}
    /\ crashes = 0
    /\ market_collection \in [Pairs -> Volatilities \cup {NoQuote}]
    /\ shockCalls = <<>>
    /\ awaiting = {}

NextMarket ==
    \/ OrchStart
    \/ \E written \in SUBSET MARKET_CURRENCY_PAIRS,
          vols \in [MARKET_CURRENCY_PAIRS -> FakeVolatilities] :
          update_market_data(written, vols)
    \/ invoke_foundry_agent("run_portfolio_scan")
    \/ AttemptSucceeds("run_portfolio_scan")
    \/ \E e \in Exceptions : AttemptRaises("run_portfolio_scan", e)
    \/ BackoffSleep("run_portfolio_scan")

\* the event loop keeps running its tasks and scheduled jobs
SpecMarket == InitMarket /\ [][NextMarket]_vars /\ WF_vars(NextMarket)

\* ------------------------------------------------------------ properties

\* what a get_risk_result(j) whose MongoDB read does not fail returns
Polled(j) == GetRiskResult(j, FALSE)

\* a job message of job id j is ready on risk.jobs or held unacknowledged
InFlight(j) ==
    \/ \E i \in 1..Len(jobsQueue) : jobsQueue[i].job_id = j
    \/ \E w \in Workers : wpc[w] \in {"processed", "sent", "published"} /\ wmsg[w].job_id = j

\* worker w completes publish_result in this step / acknowledges in this step
PublishStep(w) == wpc[w] = "sent" /\ wpc'[w] = "published"
AckStep(w) == wpc[w] = "published" /\ wpc'[w] = "idle" /\ acked' # acked

\* C1: once get_risk_result reports job j as succeeded or failed, the result
\* and the error payload it reports never change in any later step (including
\* the steps of a worker that re-processes the redelivered job message).
C1_TerminalImmutable ==
    [][\A j \in JobIds :
          Polled(j).status \in Terminal
             => /\ Polled(j)'.result = Polled(j).result
                /\ Polled(j)'.error = Polled(j).error]_vars

\* C2: every job whose message mcp-risk published reaches a terminal status in
\* the store get_risk_result reads. Stated on the states from which nothing can
\* change the record any more: once the job message was consumed and
\* acknowledged by a worker, the polled status is terminal.
C2_AckedJobIsTerminal ==
    \A j \in published : j \in acked => Polled(j).status \in Terminal

\* C3: no store (MongoDB collection or in-memory dict) holds a pending record
\* of a job whose message was never published to risk.jobs.
C3_NoOrphanedPending ==
    \A j \in JobIds :
        (jobs_collection[j].status = "pending" \/ job_store[j].status = "pending")
            => j \in published

\* job ids some store already holds a record for
IssuedIds == {j \in JobIds : jobs_collection[j] # NoDoc \/ job_store[j] # NoDoc}

\* C4: a submission that returns (record written, message published) returns a
\* job id no earlier submission was given, and a get_risk_result for it issued
\* right after returns status pending, whether or not its MongoDB read fails.
C4_FreshIdAndPending ==
    [][\A j \in JobIds :
          (nextId = j /\ nextId' = j + 1 /\ j \in published')
             => /\ j \notin IssuedIds
                /\ \A readFails \in BOOLEAN :
                       GetRiskResult(j, readFails)'.status = "pending"]_vars

\* the store already holds what handling envelope e once leaves there
HandledOnce(e) ==
    /\ e.job_id \in JobIds
    /\ jobs_collection[e.job_id] # NoDoc
    /\ jobs_collection[e.job_id].status = e.status
    /\ jobs_collection[e.job_id].result = e.result
    /\ jobs_collection[e.job_id].error = e.error

\* C5: when publish_result handles an envelope the store record already
\* reflects (the same envelope handled a second time), the record of that job
\* (status, result, error, completed_at) is left as it was.
C5_IdempotentRedelivery ==
    [][\A w \in Workers :
          (PublishStep(w) /\ HandledOnce(wres[w]))
             => jobs_collection'[wres[w].job_id] = jobs_collection[wres[w].job_id]]_vars

\* C6: after publish_result handled the envelope of a submitted job, the job
\* store read by get_risk_result holds a record of that job with the
\* envelope's status, result and error.
C6_UpsertTerminal ==
    [][\A w \in Workers :
          (PublishStep(w) /\ wres[w].job_id \in JobIds)
             => /\ Polled(wres[w].job_id)'.status = wres[w].status
                /\ Polled(wres[w].job_id)'.result = wres[w].result
                /\ Polled(wres[w].job_id)'.error = wres[w].error]_vars

\* C7: the stored status of a job starts at pending, never leaves a terminal
\* value, and a terminal update is only ever written onto a pending record.
C7_StatusForwardOnly ==
    [][\A j \in JobIds :
          /\ (Polled(j).status = "unknown" /\ Polled(j)'.status # "unknown")
                => Polled(j)'.status = "pending"
          /\ Polled(j).status \in Terminal => Polled(j)'.status = Polled(j).status
          /\ \A w \in Workers :
                (PublishStep(w) /\ wres[w].job_id = j /\ wstored'[w] = "applied")
                   => jobs_collection[j].status = "pending"]_vars

\* C8: a worker acknowledges a job message only when the store update of
\* publish_result did not raise, and the orchestrator gives up a result
\* message only by completing handle_risk_result.
C8_AckAfterHandling ==
    [][/\ \A w \in Workers : AckStep(w) => wstored[w] # "raised"
       /\ (omsg # Null /\ omsg' = Null) => opc = "handling"]_vars

\* C9: when publish_result raises, the job message the worker held is back on
\* risk.jobs for redelivery.
C9_PublishFailureRedelivers ==
    [][\A w \in Workers :
          (wpc[w] = "processed" /\ wpc'[w] = "stopped")
             => \E i \in 1..Len(jobsQueue') : jobsQueue'[i] = wmsg[w]]_vars

\* C10: taking a message from risk.jobs and running process_job on it never
\* ends the consume loop: the worker then holds a result envelope to publish.
C10_FailingJobKeepsWorker ==
    [][\A w \in Workers :
          (wpc[w] = "idle" /\ wpc'[w] # "idle") => wpc'[w] = "processed"]_vars

\* attempts of invocation i that ended in the rate-limit branch so far
RateLimited(i) == Len(islept[i]) + (IF ipc[i] = "sleeping" THEN 1 ELSE 0)

\* C11: one invocation of invoke_foundry_agent never makes more than
\* max_retries (5) agent calls; once 5 attempts were rate-limited no further
\* call is made and the invocation returns the retry-exhausted error.
C11_BoundedRetry ==
    \A i \in Invokers :
        /\ icalls[i] <= max_retries
        /\ RateLimited(i) = max_retries
              => /\ icalls[i] = max_retries
                 /\ ipc[i] \in {"sleeping", "returned"}
                 /\ ipc[i] = "returned" => iret[i] = ErrorResult(RetryExhaustedText)

C11_Witness ==
    \E i \in Invokers :
        ipc[i] = "returned" /\ RateLimited(i) = max_retries /\ icalls[i] = max_retries

RECURSIVE Pow2(_)
Pow2(n) == IF n = 0 THEN 1 ELSE 2 * Pow2(n - 1)

RECURSIVE SumSeq(_)
SumSeq(q) == IF q = <<>> THEN 0 ELSE Head(q) + SumSeq(Tail(q))

\* C12: an invocation that returned success after k rate-limited attempts
\* (k < 5) made k + 1 agent calls and slept k times, the n-th sleep lasting
\* 2 * 2^(n-1) seconds (2, 4, 8, ...), 2 * (2^k - 1) seconds in total.
C12_ExponentialBackoff ==
    \A i \in Invokers :
        (ipc[i] = "returned" /\ iret[i] = SuccessResult)
           => LET k == Len(islept[i])
              IN /\ k < max_retries
                 /\ icalls[i] = k + 1
                 /\ \A n \in 1..k : islept[i][n] = BaseDelay * Pow2(n - 1)
                 /\ SumSeq(islept[i]) = 2 * (Pow2(k) - 1)

C12_Witness ==
    \E i \in Invokers :
        /\ ipc[i] = "returned" /\ iret[i] = SuccessResult
        /\ Len(islept[i]) = 3 /\ SumSeq(islept[i]) = 14

\* C13: an attempt that raises an exception that is no rate-limit signal (no
\* status code 429, neither "429" nor "too_many_requests" in its message) ends
\* the invocation in that step, at any attempt number: it returns status
\* "error" with the exception's message, nothing is slept, and no agent call
\* follows in this invocation.
C13_OtherErrorEndsInvocation ==
    [][\A i \in Invokers :
          /\ \A e \in Exceptions :
                (~IsRateLimit(e) /\ AttemptRaises(i, e))
                   => /\ ipc'[i] = "returned"
                      /\ iret'[i] = [status |-> "error", error |-> e.message]
                      /\ islept'[i] = islept[i]
          /\ ipc[i] = "returned"
                => \/ icalls'[i] = icalls[i]
                   \/ ipc'[i] = "attempt" /\ icalls'[i] = 0]_vars

C13_Witness ==
    \E i \in Invokers :
        /\ ipc[i] = "returned"
        /\ iret[i] = [status |-> "error", error |-> <<"internal", "server", "error">>]
        /\ icalls[i] = 3
        /\ Len(islept[i]) = 2

\* C14: the value returned after the attempt budget was used up on rate-limit
\* signals is returned by no other way out of invoke_foundry_agent: an
\* invocation that returned that value made 5 rate-limited attempts.
C14_ExhaustionDistinct ==
    \A i \in Invokers :
        (ipc[i] = "returned" /\ iret[i] = ErrorResult(RetryExhaustedText))
           => RateLimited(i) = max_retries

KnownMetrics == {"var", "dv01"}

\* the known metrics present in a result dict whose value exceeds the
\* configured threshold (var as a signed value, dv01 as a magnitude)
Breached(result) ==
    {m \in KnownMetrics \cap DOMAIN result :
        IF m = "var" THEN result.var > FX_VAR_THRESHOLD
                     ELSE Abs(result.dv01) > IR_DV01_THRESHOLD}

\* C15: when handle_risk_result handles a succeeded envelope, the breach
\* details it passes on hold exactly one entry for each known metric present
\* in the result that exceeds its threshold and no other entry, with one agent
\* invocation; when no metric exceeds its threshold nothing is recorded and
\* no agent is invoked.
C15_BreachCount ==
    [][(opc = "handling" /\ opc' = "idle" /\ omsg.status = "succeeded")
          => LET breached == Breached(omsg.result)
             IN IF breached = {}
                   THEN UNCHANGED <<lastCall, invocations>>
                   ELSE /\ lastCall' # Null
                        /\ Len(lastCall'.breach_details) = Cardinality(breached)
                        /\ \A m \in breached :
                              Cardinality({k \in 1..Len(lastCall'.breach_details) :
                                             lastCall'.breach_details[k].metric = m}) = 1
                        /\ invocations'[omsg.job_id] = invocations[omsg.job_id] + 1]_vars

C15_Witness ==
    /\ opc = "idle"
    /\ lastCall # Null
    /\ DOMAIN lastCall.risk_result = KnownMetrics
    /\ Len(lastCall.breach_details) = 1
    /\ lastCall.breach_details[1].metric = "dv01"
    /\ lastCall.risk_result.dv01 < 0

\* nothing of job j is left to deliver or to handle: the job message was
\* acknowledged, the orchestrator's queue is bound, and no envelope of j is
\* queued or being handled
Quiescent(j) ==
    /\ j \in acked
    /\ ~InFlight(j)
    /\ orchUp
    /\ \A k \in 1..Len(resultsQueue) : resultsQueue[k].job_id # j
    /\ ~(opc = "handling" /\ omsg.job_id = j)

\* C16: for a job whose worker-computed VaR (as stored by the worker) exceeds
\* FX_VAR_THRESHOLD, the agent is invoked for that job never more than once,
\* and exactly once by the time nothing of the job is left to deliver or
\* handle, whenever the orchestrator started and however often the job
\* message was delivered.
C16_BreachInvokedOnce ==
    \A j \in JobIds :
        (Polled(j).status = "succeeded" /\ Polled(j).result.var > FX_VAR_THRESHOLD)
           => /\ invocations[j] <= 1
              /\ Quiescent(j) => invocations[j] = 1

\* C17: while the orchestrator handles a breaching envelope of job j (the
\* breach invocation for j is under way), the job store does not report j as
\* pending any more.
C17_PersistBeforeForward ==
    (/\ opc = "handling"
     /\ omsg.job_id \in JobIds
     /\ omsg.status = "succeeded"
     /\ BreachDetails(omsg.result) # <<>>)
       => Polled(omsg.job_id).status # "pending"

\* the record of job j in the store get_risk_result answers from
JobRecord(j) == IF jobs_collection[j] # NoDoc THEN jobs_collection[j] ELSE job_store[j]

\* C18: a job submitted for a contract the lookup does not find ends as
\* failed: once its message is acknowledged and its record holds a terminal
\* status, that status is failed, and list_jobs("failed") returns that job
\* with status failed (as its only entry when it is the only job submitted).
C18_LookupFailureFailsJob ==
    \A j \in JobIds :
        (/\ JobRecord(j) # NoDoc
         /\ JobRecord(j).job_data.contract_id \notin KnownContracts
         /\ j \in acked
         /\ Polled(j).status \in Terminal)
           => /\ Polled(j).status = "failed"
              /\ \E e \in ListJobs("failed", FALSE).jobs :
                    e.job_id = j /\ e.status = "failed"
              /\ nextId = 2 => ListJobs("failed", FALSE).count = 1

\* horizon_days < 1, confidence outside the open interval (0, 1), or
\* simulations <= 0
InvalidFxVarParams(q) ==
    \/ q.horizon_days < 1
    \/ q.confidence_pct <= 0
    \/ q.confidence_pct >= 100
    \/ q.sims <= 0

\* C20: run_fx_var rejects a submission with horizon_days < 1, confidence
\* outside (0, 1) or simulations <= 0: no store holds a job record with such
\* parameters and no message with such parameters is on risk.jobs.
C20_ValidationBeforePublish ==
    /\ \A j \in JobIds :
          /\ jobs_collection[j] # NoDoc
                => ~InvalidFxVarParams(jobs_collection[j].job_data.params)
          /\ job_store[j] # NoDoc
                => ~InvalidFxVarParams(job_store[j].job_data.params)
    /\ \A k \in 1..Len(jobsQueue) : ~InvalidFxVarParams(jobsQueue[k].params)

\* job types process_job computes
ComputedJobTypes == {"fx_var", "ir_dv01"}

C22_PollWellFormed ==
    \A j \in JobIds, readFails \in BOOLEAN :
        (readFails => mongodb_enabled)
           => LET r == GetRiskResult(j, readFails)
              IN /\ "status" \in DOMAIN r
                 /\ j \notin IssuedIds => (r.status = "unknown" /\ "error" \in DOMAIN r)
                 /\ j \in IssuedIds => r.status = JobRecord(j).status

\* the status filters of list_jobs
StatusFilters == {""} \cup RiskJobStatus

\* C23: list_jobs(status) returns exactly the jobs get_risk_result finds whose
\* status matches the filter (all of them for the empty filter), each once,
\* with count the number of entries, also when some jobs are in the in-memory
\* dict and others in MongoDB.
C23_ListJobsExact ==
    \A f \in StatusFilters :
        LET listed == ListJobs(f, FALSE)
            found == {j \in JobIds : /\ Polled(j).status # "unknown"
                                     /\ (f = "" \/ Polled(j).status = f)}
        IN /\ {e.job_id : e \in listed.jobs} = found
           /\ \A e \in listed.jobs : e.status = Polled(e.job_id).status
           /\ listed.count = Cardinality(found)

\* worker w holds a delivered, unacknowledged job message
Holding(w) == wmsg[w] # NoMsg

\* C24: a worker holds at most one unacknowledged job message: it holds one
\* exactly while it is between taking it and acknowledging, rejecting or
\* losing it, and a message leaves risk.jobs only to a worker that holds none.
C24_OneInFlightPerWorker ==
    [][/\ \A w \in Workers :
            /\ Holding(w)' <=> wpc'[w] \in {"processed", "sent", "published"}
            /\ (wmsg'[w] # wmsg[w] /\ Holding(w)')
                  => /\ ~Holding(w)
                     /\ wpc[w] = "idle"
                     /\ wmsg'[w] = Head(jobsQueue)
       /\ (jobsQueue # <<>> /\ jobsQueue' = Tail(jobsQueue))
            => \E w \in Workers : ~Holding(w) /\ wpc[w] = "idle" /\ wpc'[w] # "idle"]_vars

\* every worker holds a message of its own
C24_Witness ==
    /\ \A w \in Workers : Holding(w)
    /\ \A v, w \in Workers : v # w => wmsg[v] # wmsg[w]

\* Result Envelopes of job j the orchestrator has queued or is handling
EnvelopesOf(j) ==
    Cardinality({k \in 1..Len(resultsQueue) : resultsQueue[k].job_id = j})
       + (IF opc = "handling" /\ omsg.job_id = j THEN 1 ELSE 0)

\* C25: no job message is held by two workers at the same time, and no job
\* has more than one Result Envelope.
C25_ExactlyOneWorkerPerMessage ==
    /\ \A v, w \in Workers :
          (v # w /\ Holding(v) /\ Holding(w)) => wmsg[v].job_id # wmsg[w].job_id
    /\ \A j \in JobIds : EnvelopesOf(j) <= 1

\* C26: handle_risk_result makes at most one invoke_foundry_agent call for the
\* envelope it handles; for a succeeded envelope in which both var and dv01
\* breach, that one call carries both breach entries, var first.
C26_OneInvocationPerEnvelope ==
    [][(opc = "handling" /\ opc' = "idle")
          => /\ \A j \in JobIds :
                   /\ invocations'[j] <= invocations[j] + 1
                   /\ j # omsg.job_id => invocations'[j] = invocations[j]
             /\ (/\ omsg.status = "succeeded"
                 /\ DOMAIN omsg.result = KnownMetrics
                 /\ omsg.result.var > FX_VAR_THRESHOLD
                 /\ Abs(omsg.result.dv01) > IR_DV01_THRESHOLD)
                   => /\ invocations'[omsg.job_id] = invocations[omsg.job_id] + 1
                      /\ lastCall'.agent_name = THRESHOLD_BREACH_AGENT
                      /\ lastCall'.contract_id = omsg.contract_id
                      /\ Len(lastCall'.breach_details) = 2
                      /\ lastCall'.breach_details[1].metric = "var"
                      /\ lastCall'.breach_details[2].metric = "dv01"]_vars

C26_Witness ==
    /\ opc = "idle"
    /\ lastCall # Null
    /\ Len(lastCall.breach_details) = 2
    /\ \E j \in JobIds : invocations[j] = 1

\* C27: handling an envelope whose status is not succeeded makes no breach
\* entry and no agent invocation, whatever its result holds.
C27_NotSucceededNoBreach ==
    [][(opc = "handling" /\ opc' = "idle" /\ omsg.status # "succeeded")
          => UNCHANGED <<lastCall, invocations>>]_vars

\* a failed envelope whose result holds a var above the threshold was handled
C27_Witness ==
    /\ opc = "idle"
    /\ ohandled # Null
    /\ ohandled.status = "failed"
    /\ "var" \in DOMAIN ohandled.result
    /\ ohandled.result.var > FX_VAR_THRESHOLD
    /\ lastCall = Null

\* the metrics named by the breach entries of a call
MetricsOf(call) == {call.breach_details[k].metric : k \in 1..Len(call.breach_details)}

\* C28: for a succeeded envelope, var breaches exactly when var >
\* FX_VAR_THRESHOLD as a signed value (never when negative or equal to the
\* threshold) and dv01 exactly when dv01 > IR_DV01_THRESHOLD or dv01 <
\* -IR_DV01_THRESHOLD (not when its magnitude equals the threshold).
C28_ThresholdComparison ==
    [][(opc = "handling" /\ opc' = "idle" /\ omsg.status = "succeeded")
          => LET r == omsg.result
                 varBreach == "var" \in DOMAIN r /\ r.var > FX_VAR_THRESHOLD
                 dv01Breach == /\ "dv01" \in DOMAIN r
                               /\ \/ r.dv01 > IR_DV01_THRESHOLD
                                  \/ r.dv01 < 0 - IR_DV01_THRESHOLD
             IN IF varBreach \/ dv01Breach
                   THEN /\ lastCall' # Null
                        /\ "var" \in MetricsOf(lastCall') <=> varBreach
                        /\ "dv01" \in MetricsOf(lastCall') <=> dv01Breach
                        /\ \A k \in 1..Len(lastCall'.breach_details) :
                              lastCall'.breach_details[k].value
                                 > lastCall'.breach_details[k].threshold
                   ELSE lastCall' = lastCall /\ invocations' = invocations]_vars

\* handled: var equal to its threshold, dv01 below minus its threshold
C28_Witness ==
    /\ opc = "idle"
    /\ ohandled # Null
    /\ ohandled.status = "succeeded"
    /\ DOMAIN ohandled.result = KnownMetrics
    /\ ohandled.result.var = FX_VAR_THRESHOLD
    /\ ohandled.result.dv01 = 0 - (IR_DV01_THRESHOLD + 1)
    /\ lastCall # Null
    /\ MetricsOf(lastCall) = {"dv01"}

\* the other caller of invoke_foundry_agent
OtherInvoker(i) == CHOOSE j \in Invokers : j # i

\* C29: run_portfolio_scan and handle_risk_result go through the same
\* invoke_foundry_agent, whose delay and attempt are locals of each call: a
\* step of one invocation leaves the other's attempt, delay, sleeps and call
\* count alone; while an invocation is in flight its attempt is 1 + the number
\* of its own sleeps and its delay 2 * 2^(its own sleeps); every new
\* invocation starts at attempt 1 and delay 2.
C29_PerInvocationBackoff ==
    [][\A i \in Invokers :
          /\ <<ipc[i], iattempt[i], idelay[i], islept[i], icalls[i]>>
                 # <<ipc'[i], iattempt'[i], idelay'[i], islept'[i], icalls'[i]>>
                => LET j == OtherInvoker(i)
                   IN <<ipc'[j], iattempt'[j], idelay'[j], islept'[j], icalls'[j]>>
                         = <<ipc[j], iattempt[j], idelay[j], islept[j], icalls[j]>>
          /\ ipc'[i] \in {"attempt", "sleeping"}
                => /\ iattempt'[i] = Len(islept'[i]) + 1
                   /\ idelay'[i] = BaseDelay * Pow2(Len(islept'[i]))
          /\ (ipc[i] \in {"idle", "returned"} /\ ipc'[i] = "attempt")
                => iattempt'[i] = 1 /\ idelay'[i] = BaseDelay]_vars

\* a scheduled scan at its first attempt while a breach-triggered invocation
\* is at its third, and the reverse
C29_Witness ==
    /\ ipc["run_portfolio_scan"] = "attempt" /\ ipc["handle_risk_result"] = "attempt"
    /\ iattempt["run_portfolio_scan"] = 1 /\ idelay["run_portfolio_scan"] = BaseDelay
    /\ iattempt["handle_risk_result"] = 3 /\ idelay["handle_risk_result"] = 8

\* C30: while the orchestrator runs, a market snapshot with a currency pair
\* whose volatility is above 0.15 leads to an invocation of the market-shock
\* agent whose context lists the pairs above 0.15 of the snapshot it was given
\* ('as_of' skipped), and no market-shock invocation is made for a snapshot
\* without such a pair.
C30_MarketShockInvoked ==
    /\ [](\A n \in 1..Len(shockCalls) :
            /\ shockCalls[n].agent_name = MARKET_SHOCK_AGENT
            /\ shockCalls[n].context.shocks # <<>>
            /\ shockCalls[n].context.shocks = Shocks(shockCalls[n].context.market_snapshot))
    /\ (orchUp /\ Shocks(Snapshot(now)) # <<>>) ~> (shockCalls # <<>>)

\* C31: every job message that is ready on risk.jobs or held by a worker has
\* a job record of its job_id in the MongoDB collection or in the in-memory
\* store, and in no step does a message enter risk.jobs whose record is not
\* already there before the step.
C31_RecordBeforeMessage ==
    [][/\ \A j \in JobIds : InFlight(j)' => j \in IssuedIds'
       /\ \A j \in JobIds :
             (j \in published' /\ j \notin published) => j \in IssuedIds]_vars

\* a worker holds the message of a job whose record is in the in-memory
\* store, while another call is still suspended before its publish
C31_Witness ==
    /\ \E w \in Workers :
          /\ Holding(w) /\ wmsg[w].job_id \in JobIds
          /\ job_store[wmsg[w].job_id] # NoDoc
    /\ awaiting # {}

\* C32: when the invocation for a breach has returned (status 'error'
\* included), the only step of the consumer is the return of
\* handle_risk_result: the message is acknowledged, it is not put back on the
\* queue, no agent call follows for it, and no job's breach is invoked for
\* more than once.
C32_NoMessageLevelRetry ==
    [][/\ (opc = "invoking" /\ opc' # "invoking")
             => /\ ipc["handle_risk_result"] = "returned"
                /\ opc' = "idle"
                /\ ohandled' = omsg
                /\ resultsQueue' = resultsQueue
                /\ invocations' = invocations
                /\ icalls' = icalls
       /\ \A j \in JobIds : invocations'[j] <= 1]_vars

\* the breach of job 1 was handled and acknowledged with the retry-exhausted
\* error, and nothing is left to handle
C32_Witness ==
    /\ opc = "idle" /\ resultsQueue = <<>>
    /\ ohandled = BreachEnvelope(1)
    /\ iret["handle_risk_result"] = ErrorResult(RetryExhaustedText)
    /\ invocations[1] = 1

\* C33: every rate-limited attempt, the fifth included, is followed by one
\* sleep of the current delay before anything else happens in the
\* invocation; an invocation whose 5 attempts were all rate-limited has
\* slept 2, 4, 8, 16 and 32 seconds (62 in all) when it returns the
\* retry-exhausted error.
C33_SleepAfterEveryRateLimit ==
    [][\A i \in Invokers :
          /\ \A e \in Exceptions :
                (IsRateLimit(e) /\ AttemptRaises(i, e))
                   => ipc'[i] = "sleeping" /\ iret'[i] = Null
          /\ (ipc[i] = "sleeping" /\ ipc'[i] # "sleeping")
                => /\ islept'[i] = Append(islept[i], BaseDelay * Pow2(Len(islept[i])))
                   /\ ipc'[i] = "returned" <=> iattempt[i] = max_retries
          /\ (ipc[i] = "sleeping" /\ ipc'[i] = "returned")
                => /\ icalls[i] = max_retries
                   /\ islept'[i] = <<2, 4, 8, 16, 32>>
                   /\ SumSeq(islept'[i]) = 62
                   /\ iret'[i] = ErrorResult(RetryExhaustedText)]_vars

C33_Witness ==
    \E i \in Invokers :
        /\ ipc[i] = "returned" /\ iret[i] = ErrorResult(RetryExhaustedText)
        /\ icalls[i] = max_retries
        /\ islept[i] = <<2, 4, 8, 16, 32>>

\* C34: an invocation is always before its entry, at an attempt, in a sleep
\* or returned -- never left by an exception; it makes at most max_retries
\* (5) agent calls; what it returns has status 'success' or 'error'; and
\* every invocation that was entered returns, whatever the outcomes of its
\* agent calls.
C34_AlwaysReturns ==
    /\ [](\A i \in Invokers :
            /\ ipc[i] \in {"idle", "attempt", "sleeping", "returned"}
            /\ icalls[i] <= max_retries
            /\ iattempt[i] <= max_retries
            /\ ipc[i] = "returned" => iret[i].status \in {"success", "error"}
            /\ ipc[i] # "returned" => iret[i] = Null)
    /\ \A i \in Invokers : (ipc[i] \in {"attempt", "sleeping"}) ~> (ipc[i] = "returned")

\* returned after a mix of outcomes: two rate-limited attempts, then an error
\* that is no rate-limit signal
C34_Witness ==
    \E i \in Invokers :
        /\ ipc[i] = "returned" /\ iret[i].status = "error"
        /\ iret[i] # ErrorResult(RetryExhaustedText)
        /\ icalls[i] = 3 /\ Len(islept[i]) = 2

\* a breach-triggered invocation is entered and has not returned
BreachInvocationInFlight == ipc["handle_risk_result"] \in {"attempt", "sleeping"}

\* C35: the consumer takes a result message only when no breach-triggered
\* invocation is in flight, a new invocation is entered only when the
\* previous one has returned, and while one is in flight the consumer is
\* inside handle_risk_result for the one message it holds, the other
\* messages waiting.
C35_OneResultAtATime ==
    [][/\ (opc # "handling" /\ opc' = "handling") => ~BreachInvocationInFlight
       /\ (ipc'["handle_risk_result"] = "attempt" /\ icalls'["handle_risk_result"] = 0
             /\ ipc["handle_risk_result"] # ipc'["handle_risk_result"])
             => ~BreachInvocationInFlight
       /\ BreachInvocationInFlight'
             => /\ opc' = "invoking"
                /\ omsg' # Null
                /\ lastCall'.risk_result = omsg'.result]_vars

\* the invocation for the envelope of job 1 is in its second sleep while the
\* envelope of job 2 waits on the queue
C35_Witness ==
    /\ opc = "invoking" /\ omsg = BreachEnvelope(1)
    /\ ipc["handle_risk_result"] = "sleeping" /\ Len(islept["handle_risk_result"]) = 1
    /\ resultsQueue = <<BreachEnvelope(2)>>

\* the envelope has a result / an error (the dict has the key)
HasResult(e) == e.result # Null
HasError(e) == e.error # NoneStr

\* C36: the envelope process_job returns for a job message carries that
\* message's job_id, job_type and contract_id; its status is succeeded
\* exactly when it has a result and no error, failed exactly when it has an
\* error and no result; and every envelope a worker hands to
\* exchange.publish has status succeeded or failed.
C36_EnvelopeConsistent ==
    [][/\ \A w \in Workers :
             (wpc[w] = "idle" /\ wpc'[w] = "processed")
                => LET m == Head(jobsQueue)
                       e == wres'[w]
                   IN /\ e.job_id = m.job_id
                      /\ e.job_type = m.job_type
                      /\ e.contract_id = m.contract_id
                      /\ e.status \in {"succeeded", "failed"}
                      /\ e.status = "succeeded" <=> (HasResult(e) /\ ~HasError(e))
                      /\ e.status = "failed" <=> (HasError(e) /\ ~HasResult(e))
       /\ \A w \in Workers :
             (wpc[w] = "processed" /\ wpc'[w] = "sent")
                => wres[w].status \in {"succeeded", "failed"}]_vars

\* one worker has published the failed envelope of a message with an unknown
\* job type, another the succeeded envelope of an ir_dv01 job
C36_Witness ==
    \E v, w \in Workers :
        /\ wpc[v] = "sent" /\ wres[v].status = "failed"
        /\ wres[v].job_type = "stress_test" /\ HasError(wres[v]) /\ ~HasResult(wres[v])
        /\ wpc[w] = "sent" /\ wres[w].status = "succeeded"
        /\ wres[w].job_type = "ir_dv01" /\ HasResult(wres[w]) /\ ~HasError(wres[w])

====
